---- MODULE Spec2Model ----
(***************************************************************************)
(* The After Effects engine (src/engine.py): the heartbeat supervisor      *)
(* (_check_connection on the connection timer), the heartbeat_disabled /   *)
(* context_changes_disabled scopes and the handlers that use them, and the *)
(* request/response bookkeeping of the Adobe bridge the engine calls.      *)
(*                                                                         *)
(* Everything runs on one thread.  A bridge call (adobe.ping, a command    *)
(* callback's calls, adobe.app.project.save ...) waits for its response    *)
(* while the bridge handles incoming messages and calls event_processor    *)
(* (QApplication.processEvents), so timer timeouts and bridge signals are  *)
(* delivered inside a waiting call.  The thread is modelled by its call    *)
(* stack: one frame per engine method that is in progress, the last frame  *)
(* being the one that runs.                                                *)
(*                                                                         *)
(* Specifications, over one set of variables:                              *)
(*   Spec            the heartbeat, the scopes and the handlers' nesting   *)
(*   BridgeSpec      the bridge's request ids and results table            *)
(*   ContextSpec     context resolution, the context cache and its stored  *)
(*                   copy, the context display requests to the worker      *)
(*   CommandUidSpec  __get_command_uid called from several threads         *)
(*   RenderSpec      render_queue_item and the host's render queue         *)
(* ContextSpec starts with post_app_init as Spec does; apart from that a    *)
(* specification leaves the variables of the other parts as created.       *)
(***************************************************************************)
EXTENDS Integers, Sequences, FiniteSets, TLC

\* ---------------------------------------------------------------- bounds
MaxDepth == 3       \* frames on the call stack (depth of nested dispatch)
MaxFails == 4       \* longest run of consecutive failed probes explored
MaxQuits == 2       \* quit signals explored
MaxUid == 3         \* bridge requests explored
MaxRequests == 3    \* worker requests (find, thumbnail) explored
MaxDocs == 2        \* documents open in the host when the engine starts
MaxCommands == 4    \* commands registered after pre_app_init
MaxItems == 2       \* items in the render queue

\* ------------------------------------------------------ program constants
SHOTGUN_ADOBE_HEARTBEAT_TOLERANCE == 2

Timers == {1, 2}    \* the QTimer objects __setup_connection_timer can create:
                    \* one from post_app_init, one from post_qt_init(force)
NoTimer == 0        \* _CHECK_CONNECTION_TIMER = None

\* The bridge: request ids, the results a response can carry, the methods and
\* parameter lists of the calls explored.
Ids == 1..(MaxUid + 1)
NoResult == "absent"                \* the id is not a key of _RESULTS
Results == {"bar", "baz"}
Methods == {"foo", "ping"}
ParamLists == {<<1, 2, 3>>, <<3, 1>>}

\* The context data.  Contexts: "empty" has no project (a site context),
\* "project" is the project-level context, "shot" a context of an entity of
\* the project.
Contexts == {"empty", "project", "shot"}
NoContext == "none"                 \* None / the path is not a key of the cache
Paths == {"a.aep", "b.aep"}
NoUid == 0                          \* __context_find_uid = None
_CONTEXT_CACHE_KEY == "aftereffects_context_cache"
SCOPE_GLOBAL == "global"            \* UserSettings.SCOPE_GLOBAL, the scope
                                    \*   store() uses when none is given
SCOPE_PROJECT == "project"          \* UserSettings.SCOPE_PROJECT
Scopes == {SCOPE_GLOBAL, SCOPE_PROJECT}

\* Command uids: the threads that call __get_command_uid.
Threads == {"main", "other"}
NoThread == "none"                  \* _LOCK is not held

\* The render queue: the RQItemStatus values, and the statuses in which the
\* host has finished with an item it was rendering.
Items == 1..MaxItems
Statuses == {"QUEUED", "UNQUEUED", "RENDERING", "DONE", "ERR_STOPPED",
             "USER_STOPPED"}
EndStatuses == {"DONE", "ERR_STOPPED", "USER_STOPPED"}
NoItem == 0

VARIABLES
    stack,                              \* call stack of the main thread
    _FAILED_PINGS,                      \* engine.py:55
    _HEARTBEAT_DISABLED,                \* engine.py:62
    _CONTEXT_CHANGES_DISABLED,          \* engine.py:58
    _HAS_CHECKED_CONTEXT_POST_LAUNCH,   \* engine.py:70
    _CHECK_CONNECTION_TIMER,            \* engine.py:57
    running,                            \* the QTimers that are started
    event_processor,                    \* adobe.event_processor is set
    phase,                              \* engine life cycle
    autoSwitch,                         \* setting automatic_context_switch
    quits,                              \* calls of QCoreApplication.quit()
    consecFails,                        \* history: failed probes since start-up
                                        \*   or the last successful probe
    lastProbe,                          \* history: outcome of the latest probe
    lastTick,                           \* history: what the latest finished or
                                        \*   running timer tick did
    _UID,                               \* bridge: the last request id handed out
    _RESULTS,                           \* bridge: request id -> received result
    waiting,                            \* bridge: ids of the requests in flight
    issued,                             \* history: the request ids sent, in order
    lastCall,                           \* history: the latest bridge call and
                                        \*   the payload built for it
    lastResponse,                       \* history: the latest response handled
    context,                            \* engine.context
    _CONTEXT_CACHE,                     \* engine.py:56, path -> context
    _PROJECT_CONTEXT,                   \* engine.py:63
    settings,                           \* the user settings stored under
                                        \*   _CONTEXT_CACHE_KEY, per scope
    __context_find_uid,                 \* engine.py:189
    __context_thumb_uid,                \* engine.py:190
    requested,                          \* worker requests made so far (their
                                        \*   uids are 1..requested)
    openDocs,                           \* documents open in the host
    lastHandled,                        \* history: the latest call of a
                                        \*   handler of the context data
    _COMMAND_UID_COUNTER,               \* engine.py:53
    _LOCK,                              \* engine.py:54, the thread holding it
    uidCall,                            \* per thread: its position in
                                        \*   __get_command_uid, the counter
                                        \*   value it has read, what the uid
                                        \*   is for
    handedOut,                          \* history: the uids returned, in order
    lastCommand,                        \* history: the latest call of
                                        \*   _handle_command: its uid, what it
                                        \*   ran, how it ended
    renderQueue,                        \* app.project.renderQueue.items:
                                        \*   item -> status, render flag
    renderPc,                           \* position in render_queue_item
    queue_item,                         \* render_queue_item's argument
    queue_item_state_cache,             \* engine.py:607
    success,                            \* what render_queue_item returned
    queueAtStart,                       \* history: the queue when the latest
                                        \*   render_queue_item was called
    written                             \* history: the items whose render flag
                                        \*   the latest call has set

engineVars == <<stack, _FAILED_PINGS, _HEARTBEAT_DISABLED,
                _CONTEXT_CHANGES_DISABLED, _HAS_CHECKED_CONTEXT_POST_LAUNCH,
                _CHECK_CONNECTION_TIMER, running, event_processor, phase,
                autoSwitch, quits, consecFails, lastProbe, lastTick>>

bridgeVars == <<_UID, _RESULTS, waiting, issued, lastCall, lastResponse>>

contextVars == <<context, _CONTEXT_CACHE, _PROJECT_CONTEXT, settings,
                 __context_find_uid, __context_thumb_uid, requested, openDocs,
                 lastHandled>>

commandUidVars == <<_COMMAND_UID_COUNTER, _LOCK, uidCall, handedOut, lastCommand>>

renderVars == <<renderQueue, renderPc, queue_item, queue_item_state_cache,
                success, queueAtStart, written>>

vars == <<engineVars, bridgeVars, contextVars, commandUidVars, renderVars>>

\* What the actions of one part leave alone.
offEngine == <<bridgeVars, contextVars, commandUidVars, renderVars>>
offBridge == <<engineVars, contextVars, commandUidVars, renderVars>>
offContext == <<bridgeVars, commandUidVars, renderVars>>
offCommandUids == <<engineVars, bridgeVars, contextVars, renderVars>>
offRender == <<engineVars, bridgeVars, contextVars, commandUidVars>>

\* ---------------------------------------------------------------- frames
\* kind: "init"  post_app_init           pc "send_state"
\*       "tick"  _check_connection       pc "ping" | "drain" | "project_path"
\*                                          | "doc_call"
\*       "cmd"   _handle_command         pc "callback"
\*       "doc"   _handle_active_document_change  pc "change_context"
\*       "save"  save                    pc "project_save"
\* t: the timer whose timeout runs a "tick" frame, NoTimer otherwise.
Frame(k, p, t) == [kind |-> k, pc |-> p, t |-> t]

Top(stk) == stk[Len(stk)]
Pop(stk) == SubSeq(stk, 1, Len(stk) - 1)
SetTopPc(stk, p) == [stk EXCEPT ![Len(stk)].pc = p]

InTimerEvent(stk, t) == \E i \in 1..Len(stk) : stk[i].kind = "tick" /\ stk[i].t = t

\* The frame on top waits for the response of a bridge call: the bridge's wait
\* loop handles incoming messages (emitting the signals connected in
\* pre_app_init) and calls event_processor.
WaitsInRpc(stk) ==
    /\ Len(stk) > 0
    /\ Top(stk).pc \in {"send_state", "ping", "project_path", "callback",
                        "change_context", "project_save"}

\* adobe.process_new_messages() is running: incoming messages are handled.
DrainsMessages(stk) == Len(stk) > 0 /\ Top(stk).pc = "drain"

\* The main event loop is the one dispatching (no engine method in progress).
\* Once quit() has been called the main loop returns instead of dispatching.
MainLoopDispatches(stk) == Len(stk) = 0 /\ quits = 0 /\ phase = "running"

\* A Qt event (timer timeout, a click in a Toolkit dialog) can be delivered.
QtDispatchPoint(stk) ==
    \/ MainLoopDispatches(stk)
    \/ WaitsInRpc(stk) /\ event_processor

\* A bridge signal (command_received, active_document_changed) can be emitted.
SignalDispatchPoint(stk) ==
    \/ MainLoopDispatches(stk)
    \/ WaitsInRpc(stk)
    \/ DrainsMessages(stk)

\* The bridge's signals are connected to the engine's handlers from
\* pre_app_init (lines 157-162) until destroy_engine (lines 265-269).
SignalsConnected == phase # "destroyed"

\* ------------------------------------------------------------------ Init
\* A bridge that has handed out the ids up to uid and has no request in flight.
BridgeCreated(uid) ==
    /\ _UID = uid
    /\ _RESULTS = [i \in Ids |-> NoResult]
    /\ waiting = {}
    /\ issued = << >>
    /\ lastCall = [uid |-> 0, method |-> "none", params |-> << >>,
                   payload |-> [method |-> "none", id |-> 0, jsonrpc |-> "2.0",
                                params |-> << >>]]
    /\ lastResponse = [flip |-> FALSE, id |-> 0, pending |-> FALSE,
                       result |-> NoResult]

EngineCreated ==
    /\ stack = << >>
    /\ _FAILED_PINGS = 0
    /\ _HEARTBEAT_DISABLED = FALSE
    /\ _CONTEXT_CHANGES_DISABLED = FALSE
    /\ _HAS_CHECKED_CONTEXT_POST_LAUNCH = FALSE
    /\ _CHECK_CONNECTION_TIMER = NoTimer
    /\ running = {}
    /\ event_processor = FALSE
    /\ phase = "pre_app_init_done"
    /\ autoSwitch \in BOOLEAN
    /\ quits = 0
    /\ consecFails = 0
    /\ lastProbe = "none"
    /\ lastTick = [probe |-> "none", drained |-> FALSE]

\* The record of a handler call.  handler: "doc" (an active document change;
\* path, raised: context_from_path raised inside it, result: what the handler
\* returned), "add" (__add_to_context_cache called on its own; path,
\* result "cached" or "new"), "failure" and "signal" (the worker callbacks;
\* uid, sent: the messages sent to the panel), "state" (__send_state called
\* for the panel; sent).  calls: the calls the handler
\* made to resolve and to change the context, in their order.  flip tells
\* that a call was made when the call repeats the one before it.
Handled(flip, handler, path, raised, result, uid, sent, calls) ==
    [flip |-> flip, handler |-> handler, path |-> path, raised |-> raised,
     result |-> result, uid |-> uid, sent |-> sent, calls |-> calls]

\* Context.serialize(): the text form of a context.
Serialize(c) == "yaml:" \o c

\* A stored cache (a dict path -> serialized context) as a function on Paths.
EmptyDict == [p \in Paths |-> NoContext]

\* The settings a previous session of the engine can have left.
StoredBefore == {EmptyDict, [EmptyDict EXCEPT !["a.aep"] = Serialize("shot")]}

\* The context data of an engine started in context ctx, with docs documents
\* open in the host and the stored cache old left by a previous session.
ContextCreated(ctx, docs, old) ==
    /\ context = ctx
    /\ _CONTEXT_CACHE = EmptyDict
    /\ _PROJECT_CONTEXT = NoContext
    /\ settings = [scope \in Scopes |-> old]
    /\ __context_find_uid = NoUid
    /\ __context_thumb_uid = NoUid
    /\ requested = 0
    /\ openDocs = docs
    /\ lastHandled = Handled(FALSE, "none", "none", FALSE, "none", NoUid, << >>,
                            << >>)

\* No command uid has been taken.
CommandUidsCreated ==
    /\ _COMMAND_UID_COUNTER = 0
    /\ _LOCK = NoThread
    /\ uidCall = [t \in Threads |-> [pc |-> "idle", read |-> 0, use |-> "none"]]
    /\ handedOut = << >>
    /\ lastCommand = [flip |-> FALSE, uid |-> 0, ran |-> {}, result |-> "none"]

\* A render queue as the host keeps it: an item is QUEUED exactly when it is
\* ready and its render flag is set, UNQUEUED when the flag is not set; an
\* item the host is not rendering is not RENDERING.
QueueItems ==
    {it \in [status : Statuses \ {"RENDERING"}, render : BOOLEAN] :
        /\ it.status = "QUEUED" => it.render
        /\ it.status = "UNQUEUED" => ~it.render}

RenderQueueCreated(items) ==
    /\ renderQueue = items
    /\ renderPc = "idle"
    /\ queue_item = NoItem
    /\ queue_item_state_cache = << >>
    /\ success = FALSE
    /\ queueAtStart = items
    /\ written = {}

DoneQueue == [i \in Items |-> [status |-> "DONE", render |-> FALSE]]

Init ==
    /\ EngineCreated
    /\ BridgeCreated(0)
    /\ ContextCreated("project", 1, EmptyDict)
    /\ CommandUidsCreated
    /\ RenderQueueCreated(DoneQueue)

\* sgtk.platform.current_engine() is set once start-up (post_app_init) is over.
CurrentEngine == phase \in {"app_init_done", "running"}

\* ------------------------------------------------------- the context data
\* UserSettings.store(name, value, scope): the settings stored under
\* _CONTEXT_CACHE_KEY after the call.
Store(stored, scope, value) == [stored EXCEPT ![scope] = value]

\* Lines 226-229: post_app_init stores an empty dict, whatever the number of
\* open documents, and gives store() no scope.
SettingsAfterPostAppInit(stored, docs) == Store(stored, SCOPE_GLOBAL, EmptyDict)

\* __get_context_entity (lines 1913-1923): the context has a task, an entity
\* or a project to show.
HasEntity(ctx) == ctx # "empty"
HasProject(ctx) == ctx # "empty"

\* __send_state after its first bridge call (lines 1500-1510): the request ids
\* are cleared, and __request_context_display asks the worker for the fields
\* of the context's entity (a new uid) when there is one.
RequestedAfterSendState(ctx, n) == IF HasEntity(ctx) THEN n + 1 ELSE n
FindUidAfterSendState(ctx, n) == IF HasEntity(ctx) THEN n + 1 ELSE NoUid

\* Lines 1500-1502: the thumbnail request id after __send_state.
\* Mutant: the id of the thumbnail request is left in place.
ThumbUidAfterSendState_Kept(thumb) == thumb

ThumbUidAfterSendState(thumb) == NoUid

\* Lines 1772-1788: with no entity to show, __request_context_display sends
\* the panel its texts at once.
SentOnSendState(ctx) ==
    IF HasEntity(ctx) THEN << >> ELSE <<"context_display", "context_thumbnail">>

\* __get_from_context_cache (lines 1757-1763).
GetFromContextCache(cache, path) == cache[path]

\* __add_to_context_cache (lines 1738-1755): the cache after the call.
\* Mutant: the entry is written whether the path is cached or not.
CacheAfterAdd_Overwrite(cache, path, ctx) == [cache EXCEPT ![path] = ctx]

CacheAfterAdd(cache, path, ctx) ==
    IF cache[path] = NoContext THEN [cache EXCEPT ![path] = ctx] ELSE cache

\* Lines 1746-1748: the dict that is stored.
\* Mutant: the contexts are stored as they are.
SerialCache_Unserialized(cache) == cache

SerialCache(cache) ==
    [p \in Paths |-> IF cache[p] = NoContext THEN NoContext
                                             ELSE Serialize(cache[p])]

\* Lines 1738-1755: the stored settings after the call.
SettingsAfterAdd(stored, cache, path, ctx) ==
    IF cache[path] = NoContext
    THEN Store(stored, SCOPE_PROJECT, SerialCache(CacheAfterAdd(cache, path, ctx)))
    ELSE stored

AddToContextCache(path, ctx) ==
    /\ _CONTEXT_CACHE' = CacheAfterAdd(_CONTEXT_CACHE, path, ctx)
    /\ settings' = SettingsAfterAdd(settings, _CONTEXT_CACHE, path, ctx)

\* Lines 861-867: the project context after context_from_path has raised,
\* built from the engine's context ctx when there is none yet.
ProjectContextOf(ctx) == IF HasProject(ctx) THEN "project" ELSE "empty"

ProjectContextAfterFailure(projectContext, ctx) ==
    IF projectContext = NoContext THEN ProjectContextOf(ctx) ELSE projectContext

\* Lines 838-867: the context the handler goes on with.
FoundContext(cached, raises, resolved, projectContext) ==
    IF cached # NoContext THEN cached
    ELSE IF raises THEN projectContext
    ELSE resolved

\* Lines 869-879: the context to change to, NoContext when the handler
\* returns False at line 874.
TargetContext(found, current) ==
    IF ~HasProject(found) /\ ~HasProject(current) THEN NoContext
    ELSE IF ~HasProject(found) THEN "project"
    ELSE found

\* Line 881.
ChangesContext(found, current) ==
    /\ TargetContext(found, current) # NoContext
    /\ TargetContext(found, current) # current

\* Lines 829-833: inside its heartbeat scope the handler returns False when
\* context changes are disabled, before it looks at the path.
\* Mutant: the flag is not looked at.
ReturnsWhenDisabled_Never(disabled) == FALSE

ReturnsWhenDisabled(disabled) == disabled

\* Lines 838-884: the calls the handler makes once it is past its two early
\* returns: context_from_path for a path that is not cached, and, when the
\* context changes, context_about_to_change before change_context.
CallsOfDocumentChange(cached, found, current) ==
    (IF cached = NoContext THEN <<"context_from_path">> ELSE << >>)
        \o (IF ChangesContext(found, current)
            THEN <<"context_about_to_change", "change_context">>
            ELSE << >>)

\* Lines 856-857: the request ids after context_from_path has raised.
\* Mutant: the ids are left as they are.
UidAfterResolutionFailure_Kept(uid) == uid

UidAfterResolutionFailure(uid) == NoUid

\* __on_worker_failure (lines 1808-1838).
\* Mutant: the find id is left in place.
FindUidAfterFailure_Kept(uid, find) == find

FindUidAfterFailure(uid, find) == IF uid = find THEN NoUid ELSE find

ThumbUidAfterFailure(uid, find, thumb) ==
    IF uid = find THEN thumb
    ELSE IF uid = thumb THEN NoUid
    ELSE thumb

\* The messages __on_worker_failure sends to the panel.
SentOnFailure(uid, find, thumb) ==
    IF uid = find THEN <<"context_display:error">> ELSE << >>

\* ------------------------------------------------- connection timer set-up
\* __setup_connection_timer(force): the timer the call leaves in
\* _CHECK_CONNECTION_TIMER, and the timers that are started after it.
CreatesTimer(force) == _CHECK_CONNECTION_TIMER = NoTimer \/ force

TimerAfterSetup(force) ==
    IF CreatesTimer(force) THEN _CHECK_CONNECTION_TIMER + 1
                           ELSE _CHECK_CONNECTION_TIMER

\* Mutant: the existing timer is not stopped (lines 1662-1672 left out).
RunningAfterSetup_NoStop(force) ==
    IF CreatesTimer(force)
    THEN running \cup {_CHECK_CONNECTION_TIMER + 1}
    ELSE running

RunningAfterSetup(force) ==
    IF CreatesTimer(force)
    THEN (running \ {_CHECK_CONNECTION_TIMER}) \cup {_CHECK_CONNECTION_TIMER + 1}
    ELSE running

SetupConnectionTimer(force) ==
    /\ TimerAfterSetup(force) \in Timers
    /\ _CHECK_CONNECTION_TIMER' = TimerAfterSetup(force)
    /\ running' = RunningAfterSetup(force)

\* ---------------------------------------------------------- life cycle
\* post_app_init up to its first bridge call: event_processor, the timer,
\* then __send_state(), which calls the bridge.
PostAppInit ==
    /\ phase = "pre_app_init_done"
    /\ stack = << >>
    /\ event_processor' = TRUE
    /\ SetupConnectionTimer(FALSE)
    /\ stack' = <<Frame("init", "send_state", NoTimer)>>
    /\ phase' = "post_app_init"
    /\ UNCHANGED <<_FAILED_PINGS, _HEARTBEAT_DISABLED, _CONTEXT_CHANGES_DISABLED,
                   _HAS_CHECKED_CONTEXT_POST_LAUNCH, autoSwitch, quits,
                   consecFails, lastProbe, lastTick, offEngine>>

\* The rest of post_app_init: __send_state goes on after its bridge call, the
\* stored context cache is cleared (lines 226-229), and post_app_init
\* returns: the engine becomes the current engine.
PostAppInitReturns ==
    /\ Len(stack) > 0
    /\ Top(stack).kind = "init"
    /\ stack' = Pop(stack)
    /\ phase' = "app_init_done"
    /\ requested' = RequestedAfterSendState(context, requested)
    /\ __context_find_uid' = FindUidAfterSendState(context, requested)
    /\ __context_thumb_uid' = ThumbUidAfterSendState(__context_thumb_uid)
    /\ settings' = SettingsAfterPostAppInit(settings, openDocs)
    /\ UNCHANGED <<_FAILED_PINGS, _HEARTBEAT_DISABLED, _CONTEXT_CHANGES_DISABLED,
                   _HAS_CHECKED_CONTEXT_POST_LAUNCH, _CHECK_CONNECTION_TIMER,
                   running, event_processor, autoSwitch, quits, consecFails,
                   lastProbe, lastTick, offContext, context, _CONTEXT_CACHE,
                   _PROJECT_CONTEXT, openDocs, lastHandled>>

\* post_qt_init, called once by the process that hosts the engine before it
\* enters the main event loop.
PostQtInit ==
    /\ phase = "app_init_done"
    /\ stack = << >>
    /\ event_processor' = TRUE
    /\ SetupConnectionTimer(TRUE)
    /\ phase' = "running"
    /\ UNCHANGED <<stack, _FAILED_PINGS, _HEARTBEAT_DISABLED,
                   _CONTEXT_CHANGES_DISABLED, _HAS_CHECKED_CONTEXT_POST_LAUNCH,
                   autoSwitch, quits, consecFails, lastProbe, lastTick,
                   offEngine>>

\* ------------------------------------------------------ _check_connection
\* The except branch (lines 712-717): the counter after a failed ping, and
\* whether QCoreApplication.quit() is called.
\* Mutant: the test of line 713 inverted.
FailedPingsAfterFailure_Inverted(fp) ==
    IF fp < SHOTGUN_ADOBE_HEARTBEAT_TOLERANCE THEN fp ELSE fp + 1

\* Mutant: the counter is incremented whatever its value (no test at line 713).
FailedPingsAfterFailure_Unbounded(fp) == fp + 1

FailedPingsAfterFailure(fp) ==
    IF fp >= SHOTGUN_ADOBE_HEARTBEAT_TOLERANCE THEN fp ELSE fp + 1

\* Mutant: quit as soon as this failure brings the count to the tolerance.
QuitsOnFailure_Early(fp) == fp + 1 >= SHOTGUN_ADOBE_HEARTBEAT_TOLERANCE

QuitsOnFailure(fp) == fp >= SHOTGUN_ADOBE_HEARTBEAT_TOLERANCE

\* The else branch (line 719): the counter after a successful ping.
\* Mutant: a success takes one failure off the count instead of clearing it.
FailedPingsAfterSuccess_Decrement(fp) == IF fp > 0 THEN fp - 1 ELSE 0

FailedPingsAfterSuccess(fp) == 0

\* Where _check_connection goes on after the ping: process_new_messages()
\* (line 723) or straight to the post-launch check (line 737).
\* Mutant: process_new_messages() moved out of the else branch.
PcAfterPing_AlwaysDrain(ok) == "drain"

PcAfterPing(ok) == IF ok THEN "drain" ELSE "post_launch"

\* Lines 707-708: a tick pings unless the heartbeat is disabled.
\* Mutant: the early return of lines 707-708 left out.
TickPings_Always(disabled) == TRUE

TickPings(disabled) == ~disabled

\* Lines 737-762 up to the read of project_path (a bridge call): the stack
\* after the probe part of the tick on top of stk is over.
\* Mutant: the check is made whatever the flag and the engine's state.
AfterProbe_Always(stk) == SetTopPc(stk, "project_path")

AfterProbe(stk) ==
    IF ~_HAS_CHECKED_CONTEXT_POST_LAUNCH /\ CurrentEngine
    THEN SetTopPc(stk, "project_path")
    ELSE Pop(stk)

\* The timeout of started timer t is delivered and runs _check_connection up
\* to adobe.ping().  The timer is a repeating QTimer (timer.start(interval),
\* line 1683): it is not re-armed by _check_connection and goes on timing out
\* while a tick is in progress.  Qt's event dispatcher does not send a timer's
\* event again while that timer's event is being handled (the timeout comes
\* due again once the handler has returned), hence ~InTimerEvent; a second
\* started timer is not held back by it.
TickStart(t) ==
    /\ t \in running
    /\ ~InTimerEvent(stack, t)
    /\ QtDispatchPoint(stack)
    /\ IF TickPings(_HEARTBEAT_DISABLED)
       THEN /\ Len(stack) < MaxDepth
            /\ stack' = Append(stack, Frame("tick", "ping", t))
            /\ lastTick' = [probe |-> "pending", drained |-> FALSE]
       ELSE /\ stack' = stack
            /\ lastTick' = [probe |-> "skipped", drained |-> FALSE]
    /\ UNCHANGED <<_FAILED_PINGS, _HEARTBEAT_DISABLED, _CONTEXT_CHANGES_DISABLED,
                   _HAS_CHECKED_CONTEXT_POST_LAUNCH, _CHECK_CONNECTION_TIMER,
                   running, event_processor, phase, autoSwitch, quits,
                   consecFails, lastProbe, offEngine>>

\* adobe.ping() returns: lines 718-723 up to process_new_messages().
PingSucceeds ==
    /\ Len(stack) > 0
    /\ Top(stack).kind = "tick" /\ Top(stack).pc = "ping"
    /\ _FAILED_PINGS' = FailedPingsAfterSuccess(_FAILED_PINGS)
    /\ consecFails' = 0
    /\ lastProbe' = "ok"
    /\ lastTick' = [probe |-> "ok", drained |-> PcAfterPing(TRUE) = "drain"]
    /\ stack' = IF PcAfterPing(TRUE) = "drain" THEN SetTopPc(stack, "drain")
                                               ELSE AfterProbe(stack)
    /\ UNCHANGED <<_HEARTBEAT_DISABLED, _CONTEXT_CHANGES_DISABLED,
                   _HAS_CHECKED_CONTEXT_POST_LAUNCH, _CHECK_CONNECTION_TIMER,
                   running, event_processor, phase, autoSwitch, quits,
                   offEngine>>

\* adobe.ping() raises: lines 712-717, then on to the post-launch check.
PingFails ==
    /\ Len(stack) > 0
    /\ Top(stack).kind = "tick" /\ Top(stack).pc = "ping"
    /\ consecFails < MaxFails
    /\ QuitsOnFailure(_FAILED_PINGS) => quits < MaxQuits
    /\ _FAILED_PINGS' = FailedPingsAfterFailure(_FAILED_PINGS)
    /\ quits' = IF QuitsOnFailure(_FAILED_PINGS) THEN quits + 1 ELSE quits
    /\ consecFails' = consecFails + 1
    /\ lastProbe' = "fail"
    /\ lastTick' = [probe |-> "fail", drained |-> PcAfterPing(FALSE) = "drain"]
    /\ stack' = IF PcAfterPing(FALSE) = "drain" THEN SetTopPc(stack, "drain")
                                                ELSE AfterProbe(stack)
    /\ UNCHANGED <<_HEARTBEAT_DISABLED, _CONTEXT_CHANGES_DISABLED,
                   _HAS_CHECKED_CONTEXT_POST_LAUNCH, _CHECK_CONNECTION_TIMER,
                   running, event_processor, phase, autoSwitch, offEngine>>

\* adobe.process_new_messages() returns.
DrainDone ==
    /\ Len(stack) > 0
    /\ Top(stack).kind = "tick" /\ Top(stack).pc = "drain"
    /\ stack' = AfterProbe(stack)
    /\ UNCHANGED <<_FAILED_PINGS, _HEARTBEAT_DISABLED, _CONTEXT_CHANGES_DISABLED,
                   _HAS_CHECKED_CONTEXT_POST_LAUNCH, _CHECK_CONNECTION_TIMER,
                   running, event_processor, phase, autoSwitch, quits,
                   consecFails, lastProbe, lastTick, offEngine>>

\* -------------------------------------------------- heartbeat_disabled
\* The context manager (lines 1037-1055): line 1045 runs on entering the
\* with block; line 1054 runs when the block is left by reaching its end or
\* by a return, and does not run when an exception leaves the block (the
\* yield is not inside a try/finally).
HeartbeatOnEnter(hb) == TRUE
HeartbeatOnExit(hb) == FALSE
HeartbeatOnRaise(hb) == hb

\* context_changes_disabled (lines 1025-1035), in the same way.
ContextChangesOnEnter(ccd) == TRUE
ContextChangesOnExit(ccd) == FALSE
ContextChangesOnRaise(ccd) == ccd

\* ------------------------------------- _handle_active_document_change
\* The handler returns to the frame under it.  When _check_connection called
\* it (line 751), _check_connection goes on to line 757 and returns.
ReturnFromDoc(stk) ==
    IF Len(stk) > 0 /\ Top(stk).kind = "tick" /\ Top(stk).pc = "doc_call"
    THEN /\ stack' = Pop(stk)
         /\ _HAS_CHECKED_CONTEXT_POST_LAUNCH' = TRUE
    ELSE /\ stack' = stk
         /\ UNCHANGED _HAS_CHECKED_CONTEXT_POST_LAUNCH

\* An exception leaves the handler.  It leaves a calling _check_connection
\* too (line 757 is not reached); an exception in a slot or signal handler
\* that was dispatched ends with the dispatch.
RaiseFromDoc(stk) ==
    /\ stack' = IF Len(stk) > 0 /\ Top(stk).kind = "tick" /\ Top(stk).pc = "doc_call"
                THEN Pop(stk) ELSE stk
    /\ UNCHANGED _HAS_CHECKED_CONTEXT_POST_LAUNCH

\* Lines 811-884 up to adobe.context_about_to_change(): the handler is
\* entered from the stack stk.  Which context the path resolves to (lines
\* 838-881) is left open: contextDiffers says whether line 881 finds a context
\* to change to.
HandleActiveDocumentChange(stk, contextDiffers) ==
    IF ~autoSwitch
    THEN /\ ReturnFromDoc(stk)
         /\ UNCHANGED _HEARTBEAT_DISABLED
    ELSE IF _CONTEXT_CHANGES_DISABLED \/ ~contextDiffers
    THEN /\ ReturnFromDoc(stk)
         /\ _HEARTBEAT_DISABLED' =
                HeartbeatOnExit(HeartbeatOnEnter(_HEARTBEAT_DISABLED))
    ELSE /\ Len(stk) < MaxDepth
         /\ stack' = Append(stk, Frame("doc", "change_context", NoTimer))
         /\ _HEARTBEAT_DISABLED' = HeartbeatOnEnter(_HEARTBEAT_DISABLED)
         /\ UNCHANGED _HAS_CHECKED_CONTEXT_POST_LAUNCH

\* The bridge emits active_document_changed.
DocSignal ==
    /\ SignalsConnected
    /\ SignalDispatchPoint(stack)
    /\ \E contextDiffers \in BOOLEAN :
            HandleActiveDocumentChange(stack, contextDiffers)
    /\ UNCHANGED <<_FAILED_PINGS, _CONTEXT_CHANGES_DISABLED,
                   _CHECK_CONNECTION_TIMER, running, event_processor, phase,
                   autoSwitch, quits, consecFails, lastProbe, lastTick,
                   offEngine>>

\* Lines 882-884: context_about_to_change() and change_context() are over,
\* the handler returns True.
DocReturns ==
    /\ Len(stack) > 0
    /\ Top(stack).kind = "doc"
    /\ _HEARTBEAT_DISABLED' = HeartbeatOnExit(_HEARTBEAT_DISABLED)
    /\ ReturnFromDoc(Pop(stack))
    /\ UNCHANGED <<_FAILED_PINGS, _CONTEXT_CHANGES_DISABLED,
                   _CHECK_CONNECTION_TIMER, running, event_processor, phase,
                   autoSwitch, quits, consecFails, lastProbe, lastTick,
                   offEngine>>

\* context_about_to_change() or change_context() raises.
DocRaises ==
    /\ Len(stack) > 0
    /\ Top(stack).kind = "doc"
    /\ _HEARTBEAT_DISABLED' = HeartbeatOnRaise(_HEARTBEAT_DISABLED)
    /\ RaiseFromDoc(Pop(stack))
    /\ UNCHANGED <<_FAILED_PINGS, _CONTEXT_CHANGES_DISABLED,
                   _CHECK_CONNECTION_TIMER, running, event_processor, phase,
                   autoSwitch, quits, consecFails, lastProbe, lastTick,
                   offEngine>>

\* Lines 744-757: project_path has been read in the post-launch check.
ProjectPathReturns ==
    /\ Len(stack) > 0
    /\ Top(stack).kind = "tick" /\ Top(stack).pc = "project_path"
    /\ \E hasDocument \in BOOLEAN :
         IF hasDocument
         THEN \E contextDiffers \in BOOLEAN :
                HandleActiveDocumentChange(SetTopPc(stack, "doc_call"),
                                           contextDiffers)
         ELSE /\ stack' = Pop(stack)
              /\ _HAS_CHECKED_CONTEXT_POST_LAUNCH' = TRUE
              /\ UNCHANGED _HEARTBEAT_DISABLED
    /\ UNCHANGED <<_FAILED_PINGS, _CONTEXT_CHANGES_DISABLED,
                   _CHECK_CONNECTION_TIMER, running, event_processor, phase,
                   autoSwitch, quits, consecFails, lastProbe, lastTick,
                   offEngine>>

\* The read of project_path raises: the exception leaves _check_connection.
ProjectPathRaises ==
    /\ Len(stack) > 0
    /\ Top(stack).kind = "tick" /\ Top(stack).pc = "project_path"
    /\ stack' = Pop(stack)
    /\ UNCHANGED <<_FAILED_PINGS, _HEARTBEAT_DISABLED, _CONTEXT_CHANGES_DISABLED,
                   _HAS_CHECKED_CONTEXT_POST_LAUNCH, _CHECK_CONNECTION_TIMER,
                   running, event_processor, phase, autoSwitch, quits,
                   consecFails, lastProbe, lastTick, offEngine>>

\* ------------------------------------------------------ destroy_engine
\* Lines 243-244: the timers that are started after destroy_engine.
\* Mutant: the timer is left as it is.
RunningAfterDestroy_NoStop(timer, run) == run

RunningAfterDestroy(timer, run) == run \ {timer}

\* destroy_engine (lines 231-269), called by the process that hosts the
\* engine when its main loop has returned or is not dispatching, or by a
\* command's callback that restarts the engine: the connection timer is
\* stopped, the bridge is disconnected and its signals are disconnected from
\* the engine's handlers.  The engine is no longer the current engine.
DestroyEngine ==
    /\ phase \in {"app_init_done", "running"}
    /\ \/ stack = << >>
       \/ Len(stack) > 0 /\ Top(stack).kind = "cmd"
    /\ running' = RunningAfterDestroy(_CHECK_CONNECTION_TIMER, running)
    /\ phase' = "destroyed"
    /\ UNCHANGED <<stack, _FAILED_PINGS, _HEARTBEAT_DISABLED,
                   _CONTEXT_CHANGES_DISABLED, _HAS_CHECKED_CONTEXT_POST_LAUNCH,
                   _CHECK_CONNECTION_TIMER, event_processor, autoSwitch, quits,
                   consecFails, lastProbe, lastTick, offEngine>>

\* ------------------------------------------------------ _handle_command
\* The bridge emits command_received(uid).  runsCallback: the uid is one of
\* the two jump commands or the uid of a registered command, so that a
\* callback runs inside the with block; otherwise the block is left at once.
CmdSignal ==
    /\ SignalsConnected
    /\ SignalDispatchPoint(stack)
    /\ \E runsCallback \in BOOLEAN :
         IF runsCallback
         THEN /\ Len(stack) < MaxDepth
              /\ stack' = Append(stack, Frame("cmd", "callback", NoTimer))
              /\ _HEARTBEAT_DISABLED' = HeartbeatOnEnter(_HEARTBEAT_DISABLED)
         ELSE /\ stack' = stack
              /\ _HEARTBEAT_DISABLED' =
                     HeartbeatOnExit(HeartbeatOnEnter(_HEARTBEAT_DISABLED))
    /\ UNCHANGED <<_FAILED_PINGS, _CONTEXT_CHANGES_DISABLED,
                   _HAS_CHECKED_CONTEXT_POST_LAUNCH, _CHECK_CONNECTION_TIMER,
                   running, event_processor, phase, autoSwitch, quits,
                   consecFails, lastProbe, lastTick, offEngine>>

\* The callback returns and the with block ends.
CmdReturns ==
    /\ Len(stack) > 0
    /\ Top(stack).kind = "cmd"
    /\ stack' = Pop(stack)
    /\ _HEARTBEAT_DISABLED' = HeartbeatOnExit(_HEARTBEAT_DISABLED)
    /\ UNCHANGED <<_FAILED_PINGS, _CONTEXT_CHANGES_DISABLED,
                   _HAS_CHECKED_CONTEXT_POST_LAUNCH, _CHECK_CONNECTION_TIMER,
                   running, event_processor, phase, autoSwitch, quits,
                   consecFails, lastProbe, lastTick, offEngine>>

\* The callback raises.
CmdRaises ==
    /\ Len(stack) > 0
    /\ Top(stack).kind = "cmd"
    /\ stack' = Pop(stack)
    /\ _HEARTBEAT_DISABLED' = HeartbeatOnRaise(_HEARTBEAT_DISABLED)
    /\ UNCHANGED <<_FAILED_PINGS, _CONTEXT_CHANGES_DISABLED,
                   _HAS_CHECKED_CONTEXT_POST_LAUNCH, _CHECK_CONNECTION_TIMER,
                   running, event_processor, phase, autoSwitch, quits,
                   consecFails, lastProbe, lastTick, offEngine>>

\* ----------------------------------------------------------------- save
\* save() is called by a command callback, or by Toolkit app code that a Qt
\* event runs (the scene operation hooks), and calls adobe.app.project.save.
SaveCall ==
    /\ \/ QtDispatchPoint(stack)
       \/ Len(stack) > 0 /\ Top(stack).kind = "cmd"
    /\ Len(stack) < MaxDepth
    /\ stack' = Append(stack, Frame("save", "project_save", NoTimer))
    /\ _CONTEXT_CHANGES_DISABLED' = ContextChangesOnEnter(_CONTEXT_CHANGES_DISABLED)
    /\ UNCHANGED <<_FAILED_PINGS, _HEARTBEAT_DISABLED,
                   _HAS_CHECKED_CONTEXT_POST_LAUNCH, _CHECK_CONNECTION_TIMER,
                   running, event_processor, phase, autoSwitch, quits,
                   consecFails, lastProbe, lastTick, offEngine>>

SaveReturns ==
    /\ Len(stack) > 0
    /\ Top(stack).kind = "save"
    /\ stack' = Pop(stack)
    /\ _CONTEXT_CHANGES_DISABLED' = ContextChangesOnExit(_CONTEXT_CHANGES_DISABLED)
    /\ UNCHANGED <<_FAILED_PINGS, _HEARTBEAT_DISABLED,
                   _HAS_CHECKED_CONTEXT_POST_LAUNCH, _CHECK_CONNECTION_TIMER,
                   running, event_processor, phase, autoSwitch, quits,
                   consecFails, lastProbe, lastTick, offEngine>>

SaveRaises ==
    /\ Len(stack) > 0
    /\ Top(stack).kind = "save"
    /\ stack' = Pop(stack)
    /\ _CONTEXT_CHANGES_DISABLED' = ContextChangesOnRaise(_CONTEXT_CHANGES_DISABLED)
    /\ UNCHANGED <<_FAILED_PINGS, _HEARTBEAT_DISABLED,
                   _HAS_CHECKED_CONTEXT_POST_LAUNCH, _CHECK_CONNECTION_TIMER,
                   running, event_processor, phase, autoSwitch, quits,
                   consecFails, lastProbe, lastTick, offEngine>>

\* ------------------------------------------- the context data: handlers
\* In the actions below a handler runs from its call to its return in one
\* step, with the context it resolves; how handlers nest in one another's
\* bridge calls is the matter of the actions above, which leave open which
\* context a path resolves to.
HandlerDispatchPoint == phase = "app_init_done" /\ stack = << >>

\* _handle_active_document_change(path).  raises: context_from_path raises
\* when it is called; resolved: the context it returns when it returns.
ActiveDocumentChanged(path, raises, resolved) ==
    /\ HandlerDispatchPoint
    /\ IF ~autoSwitch
       THEN /\ lastHandled' = Handled(~lastHandled.flip, "doc", path, FALSE,
                                      "None", NoUid, << >>, << >>)
            /\ UNCHANGED <<_HEARTBEAT_DISABLED, context, _CONTEXT_CACHE,
                           _PROJECT_CONTEXT, settings, __context_find_uid,
                           __context_thumb_uid, requested>>
       ELSE IF ReturnsWhenDisabled(_CONTEXT_CHANGES_DISABLED)
       THEN /\ lastHandled' = Handled(~lastHandled.flip, "doc", path, FALSE,
                                      "False", NoUid, << >>, << >>)
            /\ _HEARTBEAT_DISABLED' =
                   HeartbeatOnExit(HeartbeatOnEnter(_HEARTBEAT_DISABLED))
            /\ UNCHANGED <<context, _CONTEXT_CACHE, _PROJECT_CONTEXT, settings,
                           __context_find_uid, __context_thumb_uid, requested>>
       ELSE LET cached == GetFromContextCache(_CONTEXT_CACHE, path)
                failed == cached = NoContext /\ raises
                projectContext ==
                    IF failed
                    THEN ProjectContextAfterFailure(_PROJECT_CONTEXT, context)
                    ELSE _PROJECT_CONTEXT
                found == FoundContext(cached, raises, resolved, projectContext)
            IN  /\ _PROJECT_CONTEXT' = projectContext
                /\ IF cached = NoContext /\ ~raises
                   THEN AddToContextCache(path, resolved)
                   ELSE UNCHANGED <<_CONTEXT_CACHE, settings>>
                /\ IF ChangesContext(found, context)
                   THEN \* change_context, then post_context_change calls
                        \* __send_state (line 117)
                        /\ HasEntity(TargetContext(found, context))
                              => requested < MaxRequests
                        /\ context' = TargetContext(found, context)
                        /\ requested' = RequestedAfterSendState(
                                            TargetContext(found, context), requested)
                        /\ __context_find_uid' = FindUidAfterSendState(
                                            TargetContext(found, context), requested)
                        /\ __context_thumb_uid' =
                              ThumbUidAfterSendState(__context_thumb_uid)
                   ELSE /\ __context_find_uid' =
                              IF failed
                              THEN UidAfterResolutionFailure(__context_find_uid)
                              ELSE __context_find_uid
                        /\ __context_thumb_uid' =
                              IF failed
                              THEN UidAfterResolutionFailure(__context_thumb_uid)
                              ELSE __context_thumb_uid
                        /\ UNCHANGED <<context, requested>>
                /\ _HEARTBEAT_DISABLED' =
                       HeartbeatOnExit(HeartbeatOnEnter(_HEARTBEAT_DISABLED))
                /\ lastHandled' =
                       Handled(~lastHandled.flip, "doc", path, failed,
                               IF ChangesContext(found, context) THEN "True"
                                                                 ELSE "False",
                               NoUid, << >>,
                               CallsOfDocumentChange(cached, found, context))
    /\ UNCHANGED <<stack, _FAILED_PINGS, _CONTEXT_CHANGES_DISABLED,
                   _HAS_CHECKED_CONTEXT_POST_LAUNCH, _CHECK_CONNECTION_TIMER,
                   running, event_processor, phase, autoSwitch, quits,
                   consecFails, lastProbe, lastTick, offContext, openDocs>>

\* __add_to_context_cache(path, ctx) on its own, for a path that is cached or
\* is not.
AddToContextCacheCall(path, ctx) ==
    /\ HandlerDispatchPoint
    /\ AddToContextCache(path, ctx)
    /\ lastHandled' = Handled(~lastHandled.flip, "add", path, FALSE,
                              IF _CONTEXT_CACHE[path] # NoContext THEN "cached"
                                                                  ELSE "new",
                              NoUid, << >>, << >>)
    /\ UNCHANGED <<engineVars, offContext, context, _PROJECT_CONTEXT,
                   __context_find_uid, __context_thumb_uid, requested, openDocs>>

\* The worker signals work_failure(uid) for a request made before.
OnWorkerFailure(uid) ==
    /\ HandlerDispatchPoint
    /\ uid \in 1..requested
    /\ __context_find_uid' = FindUidAfterFailure(uid, __context_find_uid)
    /\ __context_thumb_uid' =
           ThumbUidAfterFailure(uid, __context_find_uid, __context_thumb_uid)
    /\ lastHandled' = Handled(~lastHandled.flip, "failure", "none", FALSE,
                              "none", uid,
                              SentOnFailure(uid, __context_find_uid,
                                            __context_thumb_uid),
                              << >>)
    /\ UNCHANGED <<engineVars, offContext, context, _CONTEXT_CACHE,
                   _PROJECT_CONTEXT, settings, requested, openDocs>>

\* The worker signals work_completed(uid) (__on_worker_signal, lines
\* 1840-1903).  hasImage: the entity found has an image, so that its
\* thumbnail is requested.
OnWorkerSignal(uid, hasImage) ==
    /\ HandlerDispatchPoint
    /\ uid \in 1..requested
    /\ IF uid = __context_find_uid
       THEN /\ hasImage => requested < MaxRequests
            /\ __context_find_uid' = NoUid
            /\ __context_thumb_uid' = IF hasImage THEN requested + 1
                                                  ELSE __context_thumb_uid
            /\ requested' = IF hasImage THEN requested + 1 ELSE requested
            /\ lastHandled' =
                   Handled(~lastHandled.flip, "signal", "none", FALSE, "none",
                           uid,
                           IF hasImage THEN <<"context_display">>
                           ELSE <<"context_thumbnail", "context_display">>,
                           << >>)
       ELSE IF uid = __context_thumb_uid
       THEN /\ __context_thumb_uid' = NoUid
            /\ lastHandled' =
                   Handled(~lastHandled.flip, "signal", "none", FALSE, "none",
                           uid, <<"context_thumbnail">>, << >>)
            /\ UNCHANGED <<__context_find_uid, requested>>
       ELSE /\ lastHandled' =
                   Handled(~lastHandled.flip, "signal", "none", FALSE, "none",
                           uid, << >>, << >>)
            /\ UNCHANGED <<__context_find_uid, __context_thumb_uid, requested>>
    /\ UNCHANGED <<engineVars, offContext, context, _CONTEXT_CACHE,
                   _PROJECT_CONTEXT, settings, openDocs>>

\* The panel asks for the state: state_requested is connected to __send_state
\* (line 162), which drops the requests in progress and asks the worker anew.
StateRequested ==
    /\ HandlerDispatchPoint
    /\ HasEntity(context) => requested < MaxRequests
    /\ requested' = RequestedAfterSendState(context, requested)
    /\ __context_find_uid' = FindUidAfterSendState(context, requested)
    /\ __context_thumb_uid' = ThumbUidAfterSendState(__context_thumb_uid)
    /\ lastHandled' = Handled(~lastHandled.flip, "state", "none", FALSE, "none",
                              NoUid, SentOnSendState(context), << >>)
    /\ UNCHANGED <<engineVars, offContext, context, _CONTEXT_CACHE,
                   _PROJECT_CONTEXT, settings, openDocs>>

\* context_changes_disabled() (lines 1025-1035) around a body in which the
\* host's events are handled: the scope is entered, and left by its body
\* returning.  (A body that raises leaves the flag as the scope set it.)
ContextChangesDisabledEntered ==
    /\ HandlerDispatchPoint
    /\ ~_CONTEXT_CHANGES_DISABLED
    /\ _CONTEXT_CHANGES_DISABLED' = ContextChangesOnEnter(_CONTEXT_CHANGES_DISABLED)
    /\ UNCHANGED <<stack, _FAILED_PINGS, _HEARTBEAT_DISABLED,
                   _HAS_CHECKED_CONTEXT_POST_LAUNCH, _CHECK_CONNECTION_TIMER,
                   running, event_processor, phase, autoSwitch, quits,
                   consecFails, lastProbe, lastTick, offEngine>>

ContextChangesDisabledLeft ==
    /\ HandlerDispatchPoint
    /\ _CONTEXT_CHANGES_DISABLED
    /\ _CONTEXT_CHANGES_DISABLED' = ContextChangesOnExit(_CONTEXT_CHANGES_DISABLED)
    /\ UNCHANGED <<stack, _FAILED_PINGS, _HEARTBEAT_DISABLED,
                   _HAS_CHECKED_CONTEXT_POST_LAUNCH, _CHECK_CONNECTION_TIMER,
                   running, event_processor, phase, autoSwitch, quits,
                   consecFails, lastProbe, lastTick, offEngine>>

ContextNext ==
    \/ PostAppInit
    \/ PostAppInitReturns
    \/ ContextChangesDisabledEntered
    \/ ContextChangesDisabledLeft
    \/ StateRequested
    \/ \E path \in Paths, raises \in BOOLEAN, resolved \in Contexts :
            ActiveDocumentChanged(path, raises, resolved)
    \/ \E path \in Paths, ctx \in Contexts : AddToContextCacheCall(path, ctx)
    \/ \E uid \in 1..MaxRequests : OnWorkerFailure(uid)
    \/ \E uid \in 1..MaxRequests, hasImage \in BOOLEAN :
            OnWorkerSignal(uid, hasImage)

ContextInit ==
    /\ EngineCreated
    /\ BridgeCreated(0)
    /\ \E ctx \in {"empty", "project"}, docs \in 0..MaxDocs, old \in StoredBefore :
            ContextCreated(ctx, docs, old)
    /\ CommandUidsCreated
    /\ RenderQueueCreated(DoneQueue)

ContextSpec == ContextInit /\ [][ContextNext]_vars

\* ---------------------------------------------------- __get_command_uid
\* with self._LOCK (line 1441): a thread enters when no thread holds the lock.
\* Mutant: the counter is updated without the lock.
CanEnter_Unlocked(lock) == TRUE

CanEnter(lock) == lock = NoThread

\* What the uid of the next call of the main thread is for: pre_app_init
\* takes two uids (lines 140-141) before any command is registered.
UseOfNextUid(t) ==
    IF t = "main" /\ Len(handedOut) = 0 THEN "jump_to_sg"
    ELSE IF t = "main" /\ Len(handedOut) = 1 THEN "jump_to_fs"
    ELSE "command"

CallsInProgress == {t \in Threads : uidCall[t].pc # "idle"}

\* Thread t calls __get_command_uid (lines 140-141, line 295) and comes to
\* the with statement.  Commands are registered (by the apps, from any
\* thread) once pre_app_init is over.
GetCommandUidCalled(t) ==
    /\ uidCall[t].pc = "idle"
    /\ t # "main" => Len(handedOut) >= 2
    /\ Len(handedOut) + Cardinality(CallsInProgress) < 2 + MaxCommands
    /\ uidCall' = [uidCall EXCEPT ![t] = [pc |-> "called", read |-> 0,
                                          use |-> UseOfNextUid(t)]]
    /\ UNCHANGED <<_COMMAND_UID_COUNTER, _LOCK, handedOut, lastCommand,
                   offCommandUids>>

\* Line 1441: thread t takes the lock.
GetCommandUidEnters(t) ==
    /\ uidCall[t].pc = "called"
    /\ CanEnter(_LOCK)
    /\ _LOCK' = t
    /\ uidCall' = [uidCall EXCEPT ![t].pc = "entered"]
    /\ UNCHANGED <<_COMMAND_UID_COUNTER, handedOut, lastCommand, offCommandUids>>

\* Line 1442, first half: the counter is read.
GetCommandUidReads(t) ==
    /\ uidCall[t].pc = "entered"
    /\ uidCall' = [uidCall EXCEPT ![t].pc = "read",
                                  ![t].read = _COMMAND_UID_COUNTER]
    /\ UNCHANGED <<_COMMAND_UID_COUNTER, _LOCK, handedOut, lastCommand,
                   offCommandUids>>

\* Line 1442, second half: the value read plus one is written.
GetCommandUidWrites(t) ==
    /\ uidCall[t].pc = "read"
    /\ _COMMAND_UID_COUNTER' = uidCall[t].read + 1
    /\ uidCall' = [uidCall EXCEPT ![t].pc = "written"]
    /\ UNCHANGED <<_LOCK, handedOut, lastCommand, offCommandUids>>

\* Line 1443: the counter is returned and the lock released.
GetCommandUidReturns(t) ==
    /\ uidCall[t].pc = "written"
    /\ handedOut' = Append(handedOut, [uid |-> _COMMAND_UID_COUNTER,
                                       use |-> uidCall[t].use, thread |-> t])
    /\ _LOCK' = NoThread
    /\ uidCall' = [uidCall EXCEPT ![t] = [pc |-> "idle", read |-> 0,
                                          use |-> "none"]]
    /\ UNCHANGED <<_COMMAND_UID_COUNTER, lastCommand, offCommandUids>>

\* ------------------------------------------------------ _handle_command
\* The two ids pre_app_init keeps (lines 140-141).
JumpToSgCommandId == handedOut[1].uid
JumpToFsCommandId == handedOut[2].uid

\* engine.commands: a registered command is known by the place of its uid in
\* handedOut; its properties hold the uid register_command took for it
\* (line 295).  Every command has properties of its own.
Commands == {i \in 1..Len(handedOut) : handedOut[i].use = "command"}

\* Line 909: the test on a registered command.
\* Mutant: every registered command is taken to match.
MatchesUid_Any(i, uid) == TRUE

MatchesUid(i, uid) == handedOut[i].uid = uid

\* Lines 900-915: what _handle_command(uid) runs.
RanByHandleCommand(uid) ==
    IF uid = JumpToFsCommandId THEN {<<"_jump_to_fs", 0>>}
    ELSE IF uid = JumpToSgCommandId THEN {<<"_jump_to_sg", 0>>}
    ELSE {<<"callback", i>> : i \in {c \in Commands : MatchesUid(c, uid)}}

\* The uids the panel can send: those handed out and one more.
CommandUids == 1..(MaxCommands + 3)

\* The bridge emits command_received(uid) (connected at line 158, after the
\* two ids were taken); the handler runs in the main thread, from its call to
\* its end.  raises: what it runs raises.
HandleCommand(uid, raises) ==
    /\ Len(handedOut) >= 2
    /\ uidCall["main"].pc = "idle"
    /\ lastCommand' = [flip |-> ~lastCommand.flip, uid |-> uid,
                       ran |-> RanByHandleCommand(uid),
                       result |-> IF raises /\ RanByHandleCommand(uid) # {}
                                  THEN "raised" ELSE "returned"]
    /\ UNCHANGED <<_COMMAND_UID_COUNTER, _LOCK, uidCall, handedOut,
                   offCommandUids>>

CommandUidNext ==
    \/ \E t \in Threads :
        \/ GetCommandUidCalled(t)
        \/ GetCommandUidEnters(t)
        \/ GetCommandUidReads(t)
        \/ GetCommandUidWrites(t)
        \/ GetCommandUidReturns(t)
    \/ \E uid \in CommandUids, raises \in BOOLEAN : HandleCommand(uid, raises)

CommandUidInit ==
    /\ EngineCreated
    /\ autoSwitch
    /\ BridgeCreated(0)
    /\ ContextCreated("project", 1, EmptyDict)
    /\ CommandUidsCreated
    /\ RenderQueueCreated(DoneQueue)

CommandUidSpec == CommandUidInit /\ [][CommandUidNext]_vars

\* ---------------------------------------------------- render_queue_item
\* The host: setting an item's render flag queues or unqueues an item that
\* is waiting to be rendered and leaves the status of any other item alone.
StatusAfterRenderFlag(status, flag) ==
    IF status = "QUEUED" /\ ~flag THEN "UNQUEUED"
    ELSE IF status = "UNQUEUED" /\ flag THEN "QUEUED"
    ELSE status

\* item.render = flag
SetRender(items, i, flag) ==
    [items EXCEPT ![i] = [status |-> StatusAfterRenderFlag(@.status, flag),
                          render |-> flag]]

\* Line 607 and the loop of lines 608-613: the flags that are saved, first
\* the given item's, then those of the QUEUED items in queue order.
StateCache(items, given) ==
    <<[item |-> given, render |-> items[given].render]>>
    \o SelectSeq([i \in Items |-> [item |-> i, render |-> items[i].render]],
                 LAMBDA e : items[e.item].status = "QUEUED")

\* Lines 608-616: the queue when renderQueue.render() is called.
QueueBeforeRender(items, given) ==
    SetRender([i \in Items |-> IF items[i].status = "QUEUED"
                               THEN SetRender(items, i, FALSE)[i]
                               ELSE items[i]],
              given, TRUE)

\* The items lines 608-616 write.
WrittenBeforeRender(items, given) ==
    {i \in Items : items[i].status = "QUEUED"} \cup {given}

\* Lines 629-633.
AcceptableStates == {"DONE", "ERR_STOPPED", "RENDERING"}

\* Lines 636-639: the flags saved in cache are put back, in order, except on
\* items in one of the acceptable states.
\* Mutant: nothing is put back.
RestoreFlags_None(items, cache) == items

RECURSIVE RestoreFlags(_, _)
RestoreFlags(items, cache) ==
    IF cache = << >> THEN items
    ELSE RestoreFlags(IF items[Head(cache).item].status \notin AcceptableStates
                      THEN SetRender(items, Head(cache).item, Head(cache).render)
                      ELSE items,
                      Tail(cache))

\* The items lines 636-639 write.
WrittenByRestore(items, cache) ==
    {cache[k].item : k \in {j \in 1..Len(cache) :
                               items[cache[j].item].status \notin AcceptableStates}}

\* Line 643.
Success(items, given) == items[given].status = "DONE"

\* render_queue_item(given) up to the call of renderQueue.render().
RenderQueueItemCall(given) ==
    /\ renderPc \in {"idle", "returned"}
    /\ \A i \in Items : renderQueue[i].status # "RENDERING"
    /\ queue_item' = given
    /\ queueAtStart' = renderQueue
    /\ queue_item_state_cache' = StateCache(renderQueue, given)
    /\ renderQueue' = QueueBeforeRender(renderQueue, given)
    /\ written' = WrittenBeforeRender(renderQueue, given)
    /\ renderPc' = "render"
    /\ UNCHANGED <<success, offRender>>

\* The host starts to render the items that are QUEUED.
HostStartsRender ==
    /\ renderPc = "render"
    /\ \E i \in Items : renderQueue[i].status = "QUEUED"
    /\ renderQueue' = [i \in Items |->
                          IF renderQueue[i].status = "QUEUED"
                          THEN [renderQueue[i] EXCEPT !.status = "RENDERING"]
                          ELSE renderQueue[i]]
    /\ UNCHANGED <<renderPc, queue_item, queue_item_state_cache, success,
                   queueAtStart, written, offRender>>

\* The queue when renderQueue.render() is over: the host has finished in
\* status end with the items it had to render.
QueueAfterRender(items, end) ==
    [i \in Items |-> IF items[i].status \in {"QUEUED", "RENDERING"}
                     THEN [items[i] EXCEPT !.status = end]
                     ELSE items[i]]

\* The finally block and the return of render_queue_item, from the queue
\* items that renderQueue.render() has left.
RenderQueueItemEnds(items) ==
    /\ renderQueue' = RestoreFlags(items, queue_item_state_cache)
    /\ written' = written \cup WrittenByRestore(items, queue_item_state_cache)
    /\ queue_item_state_cache' = << >>
    /\ success' = Success(RestoreFlags(items, queue_item_state_cache), queue_item)
    /\ UNCHANGED <<queue_item, queueAtStart, offRender>>

\* renderQueue.render() returns.
RenderReturns(end) ==
    /\ renderPc = "render"
    /\ renderPc' = "returned"
    /\ RenderQueueItemEnds(QueueAfterRender(renderQueue, end))

\* renderQueue.render() raises: the host has done part of the rendering, all
\* of it or none.
RenderRaises(finished, end) ==
    /\ renderPc = "render"
    /\ renderPc' = "returned"
    /\ RenderQueueItemEnds(IF finished THEN QueueAfterRender(renderQueue, end)
                                       ELSE renderQueue)

\* The host has finished with an item that it went on rendering after the
\* render() call had raised ("returned" is the state in which
\* render_queue_item has just returned).
HostEndsRender(end) ==
    /\ renderPc = "returned"
    /\ \E i \in Items : renderQueue[i].status = "RENDERING"
    /\ renderQueue' = [i \in Items |->
                          IF renderQueue[i].status = "RENDERING"
                          THEN [renderQueue[i] EXCEPT !.status = end]
                          ELSE renderQueue[i]]
    /\ renderPc' = "idle"
    /\ UNCHANGED <<queue_item, queue_item_state_cache, success, queueAtStart,
                   written, offRender>>

RenderNext ==
    \/ \E given \in Items : RenderQueueItemCall(given)
    \/ HostStartsRender
    \/ \E end \in EndStatuses : RenderReturns(end)
    \/ \E finished \in BOOLEAN, end \in EndStatuses : RenderRaises(finished, end)
    \/ \E end \in EndStatuses : HostEndsRender(end)

RenderInit ==
    /\ EngineCreated
    /\ autoSwitch
    /\ BridgeCreated(0)
    /\ ContextCreated("project", 1, EmptyDict)
    /\ CommandUidsCreated
    /\ \E items \in [Items -> QueueItems] : RenderQueueCreated(items)

RenderSpec == RenderInit /\ [][RenderNext]_vars

\* --------------------------------------------------------- the bridge
\* AdobeBridge._get_payload(method, proxy_object=None, params): the payload
\* built when the last id handed out is uid.
\* Mutant: the payload carries the last id handed out.
PayloadId_Stale(uid) == uid

PayloadId(uid) == uid + 1

GetPayload(uid, method, params) ==
    [method |-> method, id |-> PayloadId(uid), jsonrpc |-> "2.0",
     params |-> params]

\* _UID after a payload has been built: the id has been handed out.
UidAfterPayload(uid) == uid + 1

\* AdobeBridge._handle_response: the results table after the response
\* {id, result} has been handled.
\* Mutant: a response is dropped.
ResultsAfterResponse_Dropped(results, id, result) == results

\* Mutant: the result is recorded under the id that follows the response's.
ResultsAfterResponse_Misfiled(results, id, result) ==
    [results EXCEPT ![(id % (MaxUid + 1)) + 1] = result]

ResultsAfterResponse(results, id, result) ==
    [results EXCEPT ![id] = result]

\* The results table after the caller waiting for id has taken its result.
ResultsAfterConsume(results, id) == [results EXCEPT ![id] = NoResult]

\* A bridge call: the payload is built and sent, the caller waits.
RpcCall(method, params) ==
    /\ _UID < MaxUid
    /\ _UID' = UidAfterPayload(_UID)
    /\ waiting' = waiting \cup {GetPayload(_UID, method, params).id}
    /\ issued' = Append(issued, GetPayload(_UID, method, params).id)
    /\ lastCall' = [uid |-> _UID, method |-> method, params |-> params,
                    payload |-> GetPayload(_UID, method, params)]
    /\ UNCHANGED <<_RESULTS, lastResponse, offBridge>>

\* A response arrives, for a request in flight or for any other id.
HandleResponse(id, result) ==
    /\ _RESULTS' = ResultsAfterResponse(_RESULTS, id, result)
    /\ lastResponse' = [flip |-> ~lastResponse.flip, id |-> id,
                         pending |-> id \in waiting, result |-> result]
    /\ UNCHANGED <<_UID, waiting, issued, lastCall, offBridge>>

\* The caller waiting for id finds its result in the table and takes it.
ConsumeResult(id) ==
    /\ id \in waiting
    /\ _RESULTS[id] # NoResult
    /\ _RESULTS' = ResultsAfterConsume(_RESULTS, id)
    /\ waiting' = waiting \ {id}
    /\ UNCHANGED <<_UID, issued, lastCall, lastResponse, offBridge>>

BridgeNext ==
    \/ \E method \in Methods, params \in ParamLists : RpcCall(method, params)
    \/ \E id \in Ids, result \in Results : HandleResponse(id, result)
    \/ \E id \in Ids : ConsumeResult(id)

BridgeInit ==
    /\ EngineCreated
    /\ autoSwitch
    /\ \E uid \in 0..1 : BridgeCreated(uid)
    /\ ContextCreated("project", 1, EmptyDict)
    /\ CommandUidsCreated
    /\ RenderQueueCreated(DoneQueue)

BridgeSpec == BridgeInit /\ [][BridgeNext]_vars

\* ------------------------------------------------------- specification
Next ==
    \/ PostAppInit
    \/ PostAppInitReturns
    \/ PostQtInit
    \/ \E t \in Timers : TickStart(t)
    \/ PingSucceeds
    \/ PingFails
    \/ DrainDone
    \/ ProjectPathReturns
    \/ ProjectPathRaises
    \/ DocSignal
    \/ DocReturns
    \/ DocRaises
    \/ CmdSignal
    \/ CmdReturns
    \/ CmdRaises
    \/ SaveCall
    \/ SaveReturns
    \/ SaveRaises
    \/ DestroyEngine

Spec == Init /\ [][Next]_vars

\* ================================================================ claims
TickFrames(stk) == {i \in 1..Len(stk) : stk[i].kind = "tick"}
ScopeFrames(stk) == {i \in 1..Len(stk) : stk[i].kind \in {"cmd", "doc"}}

\* C1: after a run of N < tolerance consecutive failed probes that follows
\* start-up or a successful probe, _FAILED_PINGS = N, and no step that leaves
\* such a run in place signals quit.
C1_FewFailuresStayArmed ==
    /\ [](consecFails < SHOTGUN_ADOBE_HEARTBEAT_TOLERANCE
            => _FAILED_PINGS = consecFails)
    /\ [][consecFails' < SHOTGUN_ADOBE_HEARTBEAT_TOLERANCE
            => quits' = quits]_vars

C1_Witness ==
    /\ consecFails = 1 /\ lastProbe = "fail"
    /\ _FAILED_PINGS = 1 /\ quits = 0

\* C2 as claimed: quit is signalled exactly by the failed probe that brings
\* the number of consecutive failures to the tolerance, and only once.
C2_QuitExactlyAtTolerance ==
    /\ [][quits' # quits <=>
            (consecFails' = SHOTGUN_ADOBE_HEARTBEAT_TOLERANCE
             /\ consecFails = SHOTGUN_ADOBE_HEARTBEAT_TOLERANCE - 1)]_vars
    /\ [](quits <= 1)

\* C2 amended: quit is signalled once by each failed probe that at least
\* tolerance consecutive failed probes precede, and by nothing else; the first
\* signal comes with failure number tolerance + 1.
C2_QuitAfterTolerance ==
    /\ [][quits' # quits <=>
            (consecFails' = consecFails + 1
             /\ consecFails >= SHOTGUN_ADOBE_HEARTBEAT_TOLERANCE)]_vars
    /\ [][quits' # quits => quits' = quits + 1]_vars

C2_Witness ==
    /\ quits = 1
    /\ consecFails = SHOTGUN_ADOBE_HEARTBEAT_TOLERANCE + 1

\* C3 as claimed: when no heartbeat_disabled scope is open (every with block
\* has been left, by its end, a return or an exception), _HEARTBEAT_DISABLED
\* is False.
C3_ScopeExitRestoresArmed ==
    ScopeFrames(stack) = {} => ~_HEARTBEAT_DISABLED

\* C4: whenever the latest probe was a success, _FAILED_PINGS is 0.
C4_SuccessResetsCounter == lastProbe = "ok" => _FAILED_PINGS = 0

\* A success that follows a run of failures long enough to signal quit.
C4_Witness == lastProbe = "ok" /\ quits > 0 /\ _FAILED_PINGS = 0

\* C5 as claimed: once quit has been signalled, no later probe succeeds and
\* resets the counter or drains messages.
C5_TerminatedIsFinal ==
    quits > 0 => /\ lastProbe = "fail"
                 /\ _FAILED_PINGS = SHOTGUN_ADOBE_HEARTBEAT_TOLERANCE
                 /\ ~lastTick.drained

\* C6: at most one _check_connection is in progress at any time.
C6_ProbesDoNotOverlap == Cardinality(TickFrames(stack)) <= 1

\* A tick waits for its ping while a handler dispatched inside that wait is
\* itself waiting in a bridge call that pumps the Qt event loop.
C6_Witness ==
    /\ Len(stack) >= 2
    /\ \E i \in 1..(Len(stack) - 1) :
          stack[i].kind = "tick" /\ stack[i].pc = "ping"
    /\ WaitsInRpc(stack) /\ event_processor
    /\ ~_HEARTBEAT_DISABLED
    /\ running # {}

\* C7 as claimed: while a _handle_command or _handle_active_document_change
\* with block is open, the heartbeat is disabled and no _check_connection
\* probes above it.
C7_HandlersRunDisabled ==
    \A i \in ScopeFrames(stack) :
        /\ _HEARTBEAT_DISABLED
        /\ \A j \in TickFrames(stack) : j < i

\* C8: the latest tick drained messages iff its probe succeeded.
C8_DrainIffProbeSucceeded ==
    /\ lastTick.drained <=> lastTick.probe = "ok"
    /\ \A i \in TickFrames(stack) : stack[i].pc = "drain" => lastTick.probe = "ok"

C8_Witness ==
    /\ lastTick.probe = "ok" /\ lastTick.drained
    /\ Len(stack) > 0 /\ Top(stack).pc = "drain"

\* C9: the ids sent are strictly increasing, each is the id of one request in
\* flight at most, and the payload of a call carries id = previous _UID + 1,
\* the method, jsonrpc "2.0" and the params as given.
C9_RequestIdsIncrease ==
    /\ \A i \in 1..Len(issued), j \in 1..Len(issued) :
            i < j => issued[i] < issued[j]
    /\ \A id \in waiting :
            Cardinality({i \in 1..Len(issued) : issued[i] = id}) = 1
    /\ Len(issued) > 0 =>
            lastCall.payload = [method |-> lastCall.method,
                                id |-> lastCall.uid + 1,
                                jsonrpc |-> "2.0",
                                params |-> lastCall.params]

C9_Witness ==
    /\ Len(issued) >= 2
    /\ Cardinality(waiting) >= 2
    /\ lastCall.params = <<3, 1>>

\* C10 as claimed: handling a response whose id is not in flight leaves the
\* results table as it was.
C10_UnknownIdDropped ==
    [][(lastResponse'.flip # lastResponse.flip /\ ~lastResponse'.pending)
        => _RESULTS' = _RESULTS]_vars

\* C10 amended: handling a response whose id is not in flight stores its
\* result under that id and leaves every other entry as it was.
C10_UnknownIdStored ==
    [][(lastResponse'.flip # lastResponse.flip /\ ~lastResponse'.pending)
        => /\ _RESULTS'[lastResponse'.id] \in Results
           /\ \A i \in Ids \ {lastResponse'.id} : _RESULTS'[i] = _RESULTS[i]]_vars

C10_Witness ==
    /\ ~lastResponse.pending
    /\ lastResponse.id \in Ids \ waiting
    /\ _RESULTS[lastResponse.id] # NoResult
    /\ \E i \in Ids \ {lastResponse.id} : _RESULTS[i] # NoResult

\* C11: handling a response {id, result} leaves result in _RESULTS under
\* exactly that id (every other entry is as it was), and an entry leaves the
\* table only when the caller waiting for its id takes it.
C11_ResponseRecordedUnderItsId ==
    /\ [][lastResponse'.flip # lastResponse.flip =>
            /\ _RESULTS'[lastResponse'.id] = lastResponse'.result
            /\ lastResponse'.result \in Results
            /\ \A i \in Ids \ {lastResponse'.id} : _RESULTS'[i] = _RESULTS[i]]_vars
    /\ [][\A i \in Ids :
            (_RESULTS[i] # NoResult /\ _RESULTS'[i] # _RESULTS[i]) =>
                \/ i \in waiting /\ i \notin waiting' /\ _RESULTS'[i] = NoResult
                \/ /\ lastResponse'.flip # lastResponse.flip
                   /\ lastResponse'.id = i
                   /\ _RESULTS'[i] = lastResponse'.result]_vars

\* The response handled last bore the id the next request will get (the case
\* of test_handle_response) and its result is in the table, next to the
\* result of an earlier response that has not been taken.
C11_Witness ==
    /\ lastResponse.id = _UID + 1
    /\ _RESULTS[lastResponse.id] = lastResponse.result
    /\ lastResponse.result = "bar"
    /\ \E i \in waiting : _RESULTS[i] = "baz"

\* A handler of the context data was called in the step.
HandlerCalled(handler) ==
    /\ lastHandled'.flip # lastHandled.flip
    /\ lastHandled'.handler = handler

\* C12: when context_from_path raises inside _handle_active_document_change,
\* the handler returns (True or False) instead of raising, the project context
\* is the one built at the first failure (built then from the engine's
\* context, kept afterwards), the context stays or becomes the project-level
\* one, and the find and thumbnail ids that were pending are dropped.
C12_ResolutionFailureFallsBack ==
    /\ [][(HandlerCalled("doc") /\ lastHandled'.raised) =>
            /\ lastHandled'.result \in {"True", "False"}
            /\ _PROJECT_CONTEXT' =
                  IF _PROJECT_CONTEXT = NoContext
                  THEN (IF context = "empty" THEN "empty" ELSE "project")
                  ELSE _PROJECT_CONTEXT
            /\ context' \in {context, "project"}
            /\ lastHandled'.result = "True" <=> context' # context
            /\ __context_find_uid' \notin
                  {__context_find_uid, __context_thumb_uid} \ {NoUid}
            /\ __context_thumb_uid' = NoUid
            /\ lastHandled'.result = "False" => __context_find_uid' = NoUid
            /\ _CONTEXT_CACHE' = _CONTEXT_CACHE]_vars
    /\ [][_PROJECT_CONTEXT # NoContext
            => _PROJECT_CONTEXT' = _PROJECT_CONTEXT]_vars

\* A failed resolution in the project context, for a path that is not
\* cached, after the context display had been requested: the handler
\* returned False and no request id is left.
C12_Witness ==
    /\ lastHandled.handler = "doc" /\ lastHandled.raised
    /\ lastHandled.result = "False"
    /\ context = "project" /\ _PROJECT_CONTEXT = "project"
    /\ requested > 0
    /\ __context_find_uid = NoUid /\ __context_thumb_uid = NoUid

\* C13: the uids handed out are strictly increasing in the order in which
\* the calls return, hence no two calls return the same uid, and the uid of a
\* registered command differs from the two uids pre_app_init took.
C13_CommandUidsUnique ==
    /\ \A i, j \in 1..Len(handedOut) :
          i < j => handedOut[i].uid < handedOut[j].uid
    /\ \A i, j \in 1..Len(handedOut) :
          (handedOut[i].use = "command" /\ handedOut[j].use # "command")
              => handedOut[i].uid # handedOut[j].uid

\* Both threads have registered commands after the two reserved uids were
\* taken, and a call is in progress.
C13_Witness ==
    /\ Len(handedOut) >= 4
    /\ handedOut[1].use = "jump_to_sg" /\ handedOut[2].use = "jump_to_fs"
    /\ \E i, j \in 3..Len(handedOut) : handedOut[i].thread # handedOut[j].thread
    /\ \E t \in Threads : uidCall[t].pc = "read"

\* C14 as claimed: post_app_init empties the project-scoped stored cache when
\* fewer than two documents are open and leaves the stored settings as they
\* are when two or more are open.
C14_StoredCacheClearedWhenFewDocuments ==
    [][(phase = "post_app_init" /\ phase' = "app_init_done") =>
        /\ openDocs < 2 => settings'[SCOPE_PROJECT] = EmptyDict
        /\ openDocs >= 2 => settings' = settings]_vars

\* C15: whenever a path is added to _CONTEXT_CACHE, the project-scoped
\* setting holds afterwards one entry per cached path, the serialization of
\* its context, and nothing for any other path; __add_to_context_cache
\* called for a cached path changes neither the cache nor the settings.
C15_StoredCacheMirrorsMemory ==
    /\ [][_CONTEXT_CACHE' # _CONTEXT_CACHE =>
            \A p \in Paths :
                settings'[SCOPE_PROJECT][p] =
                    IF _CONTEXT_CACHE'[p] = NoContext
                    THEN NoContext
                    ELSE Serialize(_CONTEXT_CACHE'[p])]_vars
    /\ [][(HandlerCalled("add") /\ lastHandled'.result = "cached") =>
            /\ settings' = settings
            /\ _CONTEXT_CACHE' = _CONTEXT_CACHE]_vars

\* Both paths are cached with different contexts, and the latest call was one
\* for a cached path.
C15_Witness ==
    /\ lastHandled.handler = "add" /\ lastHandled.result = "cached"
    /\ _CONTEXT_CACHE["a.aep"] = "shot" /\ _CONTEXT_CACHE["b.aep"] = "empty"
    /\ settings[SCOPE_PROJECT]["a.aep"] = "yaml:shot"
    /\ settings[SCOPE_PROJECT]["b.aep"] = "yaml:empty"

\* C16: __on_worker_failure(uid) makes no request and changes no context
\* data; for the current find uid it sends one context display (the error
\* text) and clears the find uid, for the current thumbnail uid it clears
\* that uid and sends nothing, for any other uid it does nothing.
C16_WorkerFailureHandled ==
    [][HandlerCalled("failure") =>
        /\ requested' = requested
        /\ <<context, _CONTEXT_CACHE, _PROJECT_CONTEXT, settings>>' =
              <<context, _CONTEXT_CACHE, _PROJECT_CONTEXT, settings>>
        /\ IF lastHandled'.uid = __context_find_uid
           THEN /\ lastHandled'.sent = <<"context_display:error">>
                /\ __context_find_uid' = NoUid
                /\ __context_thumb_uid' = __context_thumb_uid
           ELSE IF lastHandled'.uid = __context_thumb_uid
           THEN /\ lastHandled'.sent = << >>
                /\ __context_thumb_uid' = NoUid
                /\ __context_find_uid' = __context_find_uid
           ELSE /\ lastHandled'.sent = << >>
                /\ __context_find_uid' = __context_find_uid
                /\ __context_thumb_uid' = __context_thumb_uid]_vars

\* The find request of a context entered after start-up failed: the error
\* text was sent and the find uid is cleared.
C16_Witness ==
    /\ lastHandled.handler = "failure"
    /\ lastHandled.sent = <<"context_display:error">>
    /\ lastHandled.uid = requested /\ requested >= 2
    /\ __context_find_uid = NoUid

\* C17 as claimed: _CONTEXT_CHANGES_DISABLED is False again once the
\* context_changes_disabled block of save() has been left, by its end or by an
\* exception of the wrapped operation.
SaveFrames(stk) == {i \in 1..Len(stk) : stk[i].kind = "save"}

C17_ScopeExitEnablesContextChanges ==
    SaveFrames(stack) = {} => ~_CONTEXT_CHANGES_DISABLED

\* While renderQueue.render() runs, no item but the given one is QUEUED with
\* its render flag set.
OnlyGivenItemEnabled ==
    renderPc = "render" =>
        \A i \in Items :
            (renderQueue[i].status = "QUEUED" /\ renderQueue[i].render)
                => i = queue_item

\* When render_queue_item has returned, an item that was QUEUED at the start
\* and is not DONE, ERR_STOPPED or RENDERING has the render flag it had.
QueuedFlagsReverted ==
    renderPc = "returned" =>
        \A i \in Items :
            (queueAtStart[i].status = "QUEUED"
             /\ renderQueue[i].status \notin {"DONE", "ERR_STOPPED", "RENDERING"})
                => renderQueue[i].render = queueAtStart[i].render

\* render_queue_item has returned True iff the given item is DONE.
SuccessIffDone ==
    renderPc = "returned" =>
        (success <=> renderQueue[queue_item].status = "DONE")

\* C18 as claimed: only the given item is enabled during the render, the
\* flags of the QUEUED items are reverted, no item that was not QUEUED at the
\* start is written, and the result is True iff the given item is DONE.
C18_RenderRevertsQueue ==
    /\ OnlyGivenItemEnabled
    /\ QueuedFlagsReverted
    /\ renderPc \in {"render", "returned"} =>
          \A i \in Items : queueAtStart[i].status # "QUEUED" => i \notin written
    /\ SuccessIffDone

\* C18 amended: as claimed, except that the given item is written whatever
\* its status at the start; of the other items, those that were not QUEUED
\* at the start are not written.
C18_RenderRevertsQueueButGiven ==
    /\ OnlyGivenItemEnabled
    /\ QueuedFlagsReverted
    /\ renderPc \in {"render", "returned"} =>
          /\ queue_item \in written
          /\ \A i \in Items \ {queue_item} :
                queueAtStart[i].status # "QUEUED" => i \notin written
    /\ SuccessIffDone

\* The given item was not QUEUED (its render flag was off) and has been
\* rendered, while the other item, QUEUED at the start, has its flag back.
C18_Witness ==
    /\ renderPc = "returned" /\ success
    /\ queueAtStart[queue_item].status = "UNQUEUED"
    /\ \E i \in Items \ {queue_item} :
          /\ queueAtStart[i].status = "QUEUED"
          /\ i \in written
          /\ renderQueue[i].render /\ renderQueue[i].status = "QUEUED"

\* C19: a timer tick that begins while the heartbeat is disabled does nothing:
\* no ping is sent (no tick frame is entered), the counter, the quit signals
\* and the probe history stay as they were, nothing is drained and the
\* post-launch check is not made.
C19_DisabledTickIsNoOp ==
    [][_HEARTBEAT_DISABLED =>
        /\ Len(stack') > Len(stack) => Top(stack').kind # "tick"
        /\ (lastTick' # lastTick /\ lastTick'.probe \in {"pending", "skipped"}) =>
              /\ lastTick' = [probe |-> "skipped", drained |-> FALSE]
              /\ stack' = stack
              /\ _FAILED_PINGS' = _FAILED_PINGS
              /\ quits' = quits
              /\ lastProbe' = lastProbe
              /\ _HAS_CHECKED_CONTEXT_POST_LAUNCH' = _HAS_CHECKED_CONTEXT_POST_LAUNCH
              /\ _HEARTBEAT_DISABLED' = _HEARTBEAT_DISABLED]_vars

\* A tick was skipped inside a handler, after a failed probe had been counted
\* and before the post-launch check was made.
C19_Witness ==
    /\ lastTick.probe = "skipped"
    /\ _HEARTBEAT_DISABLED
    /\ _FAILED_PINGS = 1
    /\ ~_HAS_CHECKED_CONTEXT_POST_LAUNCH /\ CurrentEngine
    /\ running # {}

\* C20: 0 <= _FAILED_PINGS <= tolerance in every reachable state.
C20_FailedPingsBounded ==
    /\ 0 <= _FAILED_PINGS
    /\ _FAILED_PINGS <= SHOTGUN_ADOBE_HEARTBEAT_TOLERANCE

\* The counter is at the tolerance after more failures than the tolerance.
C20_Witness ==
    /\ _FAILED_PINGS = SHOTGUN_ADOBE_HEARTBEAT_TOLERANCE
    /\ consecFails > SHOTGUN_ADOBE_HEARTBEAT_TOLERANCE
    /\ lastProbe = "fail"

\* C21: an active-document-change event handled while the setting
\* automatic_context_switch is false or _CONTEXT_CHANGES_DISABLED is set makes
\* no call to context_from_path, to context_about_to_change or to
\* change_context, and leaves the engine's context, the context cache, the
\* stored cache, the project context and the request ids as they were.
C21_BlockedDocumentChangeChangesNothing ==
    [][(HandlerCalled("doc") /\ (~autoSwitch \/ _CONTEXT_CHANGES_DISABLED))
          => /\ lastHandled'.calls = << >>
             /\ lastHandled'.result \in {"None", "False"}
             /\ UNCHANGED <<context, _CONTEXT_CACHE, settings, _PROJECT_CONTEXT,
                            __context_find_uid, __context_thumb_uid,
                            requested>>]_vars

\* The handler has run, with the setting on and context changes disabled, for
\* a path that is in no cache, and has called nothing.
C21_Witness ==
    /\ lastHandled.handler = "doc"
    /\ autoSwitch
    /\ _CONTEXT_CHANGES_DISABLED
    /\ _CONTEXT_CACHE[lastHandled.path] = NoContext
    /\ lastHandled.calls = << >>
    /\ lastHandled.result = "False"

\* C22 as claimed: _handle_active_document_change returns True when it has
\* changed the engine's context and False when it has not; it calls
\* change_context exactly when the context changes, and then
\* context_about_to_change is the call just before it; and an engine whose
\* context has no project is never given another context without one.
C22_ReturnsWhetherContextChanged ==
    [][HandlerCalled("doc")
          => /\ lastHandled'.result =
                    (IF context' # context THEN "True" ELSE "False")
             /\ (context' # context) <=>
                    (\E i \in DOMAIN lastHandled'.calls :
                         lastHandled'.calls[i] = "change_context")
             /\ \A i \in DOMAIN lastHandled'.calls :
                    lastHandled'.calls[i] = "change_context"
                       => /\ i > 1
                          /\ lastHandled'.calls[i - 1] = "context_about_to_change"
             /\ (~HasProject(context) /\ ~HasProject(context'))
                    => context' = context]_vars

\* C23: a worker signal (completed or failed) whose uid is neither the
\* current find request nor the current thumbnail request sends the panel
\* nothing; the uid a signal carries is not a current request once the signal
\* is handled, so that it is processed at most once; and when __send_state
\* runs, no uid issued before it is a current request afterwards.
C23_OnlyCurrentRequestsProcessed ==
    [][/\ (HandlerCalled("signal") \/ HandlerCalled("failure"))
            => /\ lastHandled'.uid \notin {__context_find_uid, __context_thumb_uid}
                     => lastHandled'.sent = << >>
               /\ lastHandled'.uid \notin {__context_find_uid', __context_thumb_uid'}
       /\ (HandlerCalled("state") \/ context' # context)
            => \A u \in 1..requested :
                   u \notin {__context_find_uid', __context_thumb_uid'}]_vars

\* A completion signal has been handled for a uid issued before the last
\* __send_state, while a later find request is in progress; nothing was sent.
C23_Witness ==
    /\ lastHandled.handler = "signal"
    /\ lastHandled.uid # NoUid
    /\ __context_find_uid # NoUid
    /\ lastHandled.uid < __context_find_uid
    /\ lastHandled.sent = << >>

\* C24: an entry of _CONTEXT_CACHE is never overwritten or removed, by any
\* operation of the engine; an active-document change for a cached path, when
\* context switching is not blocked, does not call context_from_path and goes
\* on with the context stored for the path; and a path whose resolution
\* failed is not in the cache after the handler.
C24_ContextCacheFirstWriteWins ==
    [][/\ \A p \in Paths :
              _CONTEXT_CACHE[p] # NoContext
                  => _CONTEXT_CACHE'[p] = _CONTEXT_CACHE[p]
       /\ (/\ HandlerCalled("doc")
           /\ autoSwitch /\ ~_CONTEXT_CHANGES_DISABLED
           /\ _CONTEXT_CACHE[lastHandled'.path] # NoContext)
              => LET cached == _CONTEXT_CACHE[lastHandled'.path]
                 IN  /\ \A i \in DOMAIN lastHandled'.calls :
                            lastHandled'.calls[i] # "context_from_path"
                     /\ ~lastHandled'.raised
                     /\ context' = IF ChangesContext(cached, context)
                                   THEN TargetContext(cached, context)
                                   ELSE context
       /\ (HandlerCalled("doc") /\ lastHandled'.raised)
              => /\ _CONTEXT_CACHE'[lastHandled'.path] = NoContext
                 /\ lastHandled'.calls[1] = "context_from_path"]_vars

\* The handler has changed the context for a cached path without a call of
\* context_from_path.
C24_Witness ==
    /\ lastHandled.handler = "doc"
    /\ lastHandled.result = "True"
    /\ _CONTEXT_CACHE[lastHandled.path] = context
    /\ lastHandled.calls = <<"context_about_to_change", "change_context">>

\* The frames of the ticks that are in the post-launch check: reading
\* project_path, or in the handler the check has called.
CheckFrames(stk) ==
    {i \in DOMAIN stk : stk[i].kind = "tick"
                           /\ stk[i].pc \in {"project_path", "doc_call"}}

\* The probe part of the tick on top of the stack is over: the tick goes on to
\* the post-launch check or returns.
ProbePartOver ==
    /\ Len(stack) > 0
    /\ Top(stack).kind = "tick"
    /\ Top(stack).pc \in {"ping", "drain"}
    /\ stack' \in {Pop(stack), SetTopPc(stack, "project_path")}

\* C25: the post-launch check is begun by a tick only when the engine is the
\* current engine and _HAS_CHECKED_CONTEXT_POST_LAUNCH is not set; a tick that
\* is not disabled and ends its probe while the engine is the current engine
\* and the flag is not set performs the check; a tick that ends its probe
\* with the flag set returns without the check; the flag, once set, stays
\* set; and no two ticks are in the check at the same time.
C25_PostLaunchCheckOnce ==
    [][/\ (CheckFrames(stack') \ CheckFrames(stack) # {})
            => CurrentEngine /\ ~_HAS_CHECKED_CONTEXT_POST_LAUNCH
       /\ (ProbePartOver /\ CurrentEngine /\ ~_HAS_CHECKED_CONTEXT_POST_LAUNCH)
            => stack' = SetTopPc(stack, "project_path")
       /\ (ProbePartOver /\ _HAS_CHECKED_CONTEXT_POST_LAUNCH)
            => stack' = Pop(stack)
       /\ _HAS_CHECKED_CONTEXT_POST_LAUNCH => _HAS_CHECKED_CONTEXT_POST_LAUNCH'
       /\ Cardinality(CheckFrames(stack')) <= 1]_vars

\* The check has been made, and a later tick is about to end its probe.
C25_Witness ==
    /\ _HAS_CHECKED_CONTEXT_POST_LAUNCH
    /\ CheckFrames(stack) = {}
    /\ Len(stack) > 0
    /\ Top(stack).kind = "tick"
    /\ Top(stack).pc = "drain"

\* C26: at every moment at most one connection timer is started, and it is
\* the one in _CHECK_CONNECTION_TIMER; __setup_connection_timer without force
\* leaves an existing timer and the started timers as they are; with force
\* the one timer started afterwards is the new one; and once destroy_engine
\* has run no timer is started and no tick begins a probe.
C26_AtMostOneTimerRunning ==
    /\ [](/\ Cardinality(running) <= 1
          /\ running \subseteq {_CHECK_CONNECTION_TIMER}
          /\ _CHECK_CONNECTION_TIMER # NoTimer
                => /\ TimerAfterSetup(FALSE) = _CHECK_CONNECTION_TIMER
                   /\ RunningAfterSetup(FALSE) = running
          /\ RunningAfterSetup(TRUE) = {TimerAfterSetup(TRUE)}
          /\ phase = "destroyed" => running = {})
    /\ [][phase = "destroyed"
            => ~(Len(stack') > Len(stack) /\ Top(stack').kind = "tick")]_vars

\* The engine has been destroyed after post_qt_init had replaced the first
\* timer and the second timer's ticks had probed the connection.
C26_Witness ==
    /\ phase = "destroyed"
    /\ _CHECK_CONNECTION_TIMER = 2
    /\ running = {}
    /\ lastTick.probe = "ok"

\* C27: _handle_command(uid) runs _jump_to_fs and nothing else for the
\* jump-to-file-system id, _jump_to_sg and nothing else for the
\* jump-to-Shotgun id, and for any other uid the callbacks of the registered
\* commands whose uid property is uid, of which there is at most one; when
\* nothing matches it runs nothing and returns.
C27_CommandDispatchedByUid ==
    [][lastCommand'.flip # lastCommand.flip
          => LET uid == lastCommand'.uid
                 ran == lastCommand'.ran
             IN  /\ uid = JumpToFsCommandId => ran = {<<"_jump_to_fs", 0>>}
                 /\ uid = JumpToSgCommandId => ran = {<<"_jump_to_sg", 0>>}
                 /\ uid \notin {JumpToFsCommandId, JumpToSgCommandId}
                       => /\ ran = {<<"callback", i>> :
                                      i \in {c \in Commands :
                                                handedOut[c].uid = uid}}
                          /\ Cardinality(ran) <= 1
                 /\ ran = {} => lastCommand'.result = "returned"]_vars

\* With three commands registered, the uid of the second has been handled and
\* has run that command's callback only.
C27_Witness ==
    /\ Cardinality(Commands) >= 3
    /\ lastCommand.ran = {<<"callback", 4>>}
    /\ lastCommand.uid = handedOut[4].uid

====
